---------------------------- MODULE Spec2Model ----------------------------
(***************************************************************************)
(* Model of the Soccer Predictor API (src/main.py): the team-rating        *)
(* accessor (upsert_team_rating, get_team_rating) over the "teamrating"    *)
(* collection of the document store, and the predict handler.              *)
(*                                                                         *)
(* Numbers.  The handlers compute in float64.  The model computes the same *)
(* expressions, in the same order, in decimal fixed point: a probability,  *)
(* a logistic value or an exponent is an integer count of 1e-8 (ONE is     *)
(* 1.0), effective_diff is an integer count of 1e-5 rating points, and a   *)
(* rating is a whole number of rating points.  The returned values are the *)
(* integers round(p, 4) * 1e4 and round(effective_diff, 2) * 1e2.          *)
(* All intermediate products stay below 2^31.                              *)
(***************************************************************************)
EXTENDS Integers, Sequences, FiniteSets, TLC

\* ------------------------------------------------------------------ bounds
MaxRequests == 2      \* request slots served concurrently
MaxDocs     == 2      \* documents the collection may hold
MaxGoals    == 2      \* home_score, away_score range over 0..MaxGoals

Requests == 1 .. MaxRequests
Teams    == {"A", "B"}
Ratings  == {800, 2200}          \* rating points a client may upsert
Minutes  == {0, 45, 90, 130}
Goals    == 0 .. MaxGoals

\* ------------------------------------------------------------ fixed point
ONE    == 10000 * 10000          \* 1.0 in units of 1e-8
LIMB   == 100 * 100              \* ONE = LIMB * LIMB
EDUNIT == 100 * 1000             \* 1.0 rating point in units of 1e-5

HOME_ADVANTAGE == 60
GOAL_VALUE     == 50
DEFAULT_RATING == 1500
MINUTE_DECAY   == ONE \div 40    \* 0.025
DRAW_DECAY     == ONE \div 20    \* 0.05
LN10           == 230258509      \* math.log(10) = 2.302585092994046
DRAW_CAP       == 55 * (ONE \div 100)   \* 0.55

Abs(x) == IF x >= 0 THEN x ELSE -x

Min(a, b) == IF a <= b THEN a ELSE b

\* a * b for a, b >= 0 in units of 1e-8 (floor), by limbs of 1e4
Mul(a, b) ==
  LET ah == a \div LIMB
      al == a % LIMB
      bh == b \div LIMB
      bl == b % LIMB
  IN  ah * bh + (ah * bl + al * bh + (al * bl) \div LIMB) \div LIMB

\* the digits of a / c after the point, 0 <= a < c: long division
RECURSIVE DivDigits(_, _, _, _)
DivDigits(r, c, q, n) ==
  IF n = 0 THEN q
  ELSE DivDigits((r * 10) % c, c, q * 10 + (r * 10) \div c, n - 1)

\* a / c in units of 1e-8 (floor), 0 <= a <= c
Div(a, c) == IF a = c THEN ONE ELSE DivDigits(a, c, 0, 8)

\* exp(-f) for 0 <= f <= 1: the power series 1 - f + f^2/2! - f^3/3! + ...
RECURSIVE ExpSeries(_, _, _, _)
ExpSeries(f, k, term, acc) ==
  LET t == Mul(term, f) \div k
  IN  IF t = 0 THEN acc
      ELSE ExpSeries(f, k + 1, t, IF k % 2 = 1 THEN acc - t ELSE acc + t)

EXP_NEG_ONE == ExpSeries(ONE, 1, ONE, ONE)

RECURSIVE ExpPower(_, _)
ExpPower(e, n) == IF n = 0 THEN e ELSE ExpPower(Mul(e, EXP_NEG_ONE), n - 1)

\* math.exp(-y) for y >= 0; below 1e-8 from y = 19 on
ExpNeg(y) ==
  IF y >= 19 * ONE THEN 0
  ELSE ExpPower(ExpSeries(y % ONE, 1, ONE, ONE), y \div ONE)

\* 1 / (1 + exp(-x)), given e = exp(-|x|): for x < 0 the same quotient with
\* numerator and denominator multiplied by exp(-|x|).  (math.exp(-x) itself
\* overflows for x below -709.78, which takes ratings some 120000 points
\* apart; the ratings modelled stay far from it.)
LogisticOf(nonneg, e) == IF nonneg THEN Div(ONE, ONE + e) ELSE Div(e, ONE + e)

logistic(x) == LogisticOf(x >= 0, ExpNeg(Abs(x)))

\* round(v / unit) for v >= 0, ties to even
RoundPos(v, unit) ==
  LET q == v \div unit
      r == v % unit
  IN  IF 2 * r > unit \/ (2 * r = unit /\ q % 2 = 1) THEN q + 1 ELSE q

Round(v, unit) == IF v >= 0 THEN RoundPos(v, unit) ELSE -RoundPos(-v, unit)

\* ----------------------------------------------------------------- predict
\* fault: the score counted for the wrong side
BaseDiffScoreReversed(r_home, r_away, q) ==
  (r_home - r_away)
    + (IF q.is_neutral THEN 0 ELSE HOME_ADVANTAGE)
    - (q.home_score - q.away_score) * GOAL_VALUE

\* fault: home advantage added on a neutral venue too
BaseDiffAlwaysHome(r_home, r_away, q) ==
  (r_home - r_away) + HOME_ADVANTAGE
    + (q.home_score - q.away_score) * GOAL_VALUE

\* lines 103-108: rating difference, home advantage, current score
BaseDiff(r_home, r_away, q) ==
  (r_home - r_away)
    + (IF q.is_neutral THEN 0 ELSE HOME_ADVANTAGE)
    + (q.home_score - q.away_score) * GOAL_VALUE

\* fault: the minute factor taken as 0 early in the game
MinuteFactorSaturated(minute) ==
  IF minute < 45 THEN 0 ELSE logistic((minute - 45) * MINUTE_DECAY)

\* line 110
MinuteFactor(minute) == logistic((minute - 45) * MINUTE_DECAY)

\* line 111: diff * (0.7 + 0.6 * minute_factor), in units of 1e-5
EffectiveDiff(diff, minute) ==
  LET mult == 7 * (ONE \div 10) + (6 * MinuteFactor(minute)) \div 10
      mag  == Abs(diff) * (mult \div 1000) + (Abs(diff) * (mult % 1000)) \div 1000
  IN  IF diff >= 0 THEN mag ELSE -mag

\* line 114: logistic(effective_diff / 400.0 * math.log(10));
\* exp(-x) is below 1e-8 from effective_diff / 400 = 8.1 on
HomeRaw(ed) ==
  LET t == (Abs(ed) * 5) \div 2
      e == IF Abs(ed) >= 3240 * EDUNIT THEN 0 ELSE ExpNeg(Mul(t, LN10))
  IN  LogisticOf(ed >= 0, e)

\* line 118: exp(-abs(effective_diff) / 200.0)
Closeness(ed) == IF Abs(ed) >= 3800 * EDUNIT THEN 0 ELSE ExpNeg(Abs(ed) * 5)

\* line 119
LateDrawBoost(minute) ==
  ONE \div 10 + (2 * logistic((minute - 60) * DRAW_DECAY)) \div 10

\* fault: closeness and boost added, and no cap
DrawProbabilitySum(ed, minute) == Closeness(ed) + LateDrawBoost(minute)

\* line 120
DrawProbability(ed, minute) == Min(DRAW_CAP, Mul(Closeness(ed), LateDrawBoost(minute)))

\* lines 123-125: p_raw * (1.0 - p_draw)
Rescale(p_raw, p_draw) == Mul(p_raw, ONE - p_draw)

\* fault: p_draw left out of the total
TotalNoDraw(p_home, p_draw, p_away) == p_home + p_away

\* line 128
Total(p_home, p_draw, p_away) == p_home + p_draw + p_away

NoResp == [code |-> 0]

\* lines 129-140: the total check, the division by total, the rounding
Finish(ed, p_home, p_draw, p_away) ==
  LET total == Total(p_home, p_draw, p_away)
  IN  IF total <= 0
      THEN [code |-> 400]
      ELSE [code |-> 200, kind |-> "predict",
            p_home |-> RoundPos(Div(p_home, total), LIMB),
            p_draw |-> RoundPos(Div(p_draw, total), LIMB),
            p_away |-> RoundPos(Div(p_away, total), LIMB),
            effective_diff |-> Round(ed, 1000)]

\* lines 103-140: the computation of predict from the two ratings
Prediction(r_home, r_away, q) ==
  LET ed     == EffectiveDiff(BaseDiff(r_home, r_away, q), q.minute)
      raw    == HomeRaw(ed)
      p_draw == DrawProbability(ed, q.minute)
  IN  Finish(ed, Rescale(raw, p_draw), p_draw, Rescale(ONE - raw, p_draw))

\* ------------------------------------------------------------------- state
VARIABLES
  db,          \* TRUE iff the store handle is configured (db is not None)
  teamrating,  \* the "teamrating" collection: documents in insertion order
  pc,          \* pc[r]: where request slot r stands in its handler
  req,         \* req[r]: the request slot r is serving
  existing,    \* existing[r]: the document upsert_team_rating's find_one
               \* returned, until the handler returns
  hdoc,        \* hdoc[r]: the document predict's find_one for the home team
               \* returned, until the handler returns
  resp,        \* resp[r]: the response of slot r's last finished request
  latest       \* history: latest[t] is the rating of the last finished upsert of t

vars == <<db, teamrating, pc, req, existing, hdoc, resp, latest>>

NoDoc == [_id |-> 0]
NoReq == [kind |-> "none"]

UpsertRequests == {[kind |-> "upsert", team_name |-> t, rating |-> x] :
                     t \in Teams, x \in Ratings}

GetRequests == {[kind |-> "get", team_name |-> t] : t \in Teams}

PredictRequests ==
  {[kind |-> "predict", home_team |-> h, away_team |-> a, home_score |-> hs,
    away_score |-> as, minute |-> m, is_neutral |-> n] :
     h \in Teams, a \in Teams, hs \in Goals, as \in Goals, m \in Minutes,
     n \in BOOLEAN}

\* the predict requests of the full system: two different teams at kick-off
KickoffRequests ==
  {q \in PredictRequests :
     /\ q.home_team # q.away_team
     /\ q.home_score = 0 /\ q.away_score = 0
     /\ q.minute = 0 /\ ~q.is_neutral}

\* the predict requests of the predictor on its own: A at home against B
MatchRequests ==
  {q \in PredictRequests : q.home_team = "A" /\ q.away_team = "B"}

\* ------------------------------------------------------------ the store
Indexes(coll) == 1 .. Len(coll)

\* collection.find_one({"team_name": t}): a document that matches, or None.
\* Which one of several matching documents is returned is the store's choice.
FindOne(coll, t) ==
  IF \E i \in Indexes(coll) : coll[i].team_name = t
  THEN {coll[i] : i \in {j \in Indexes(coll) : coll[j].team_name = t}}
  ELSE {NoDoc}

\* fault: the update sets the team_name and leaves the rating
UpdateOneNameOnly(coll, id, doc) ==
  [i \in Indexes(coll) |->
     IF coll[i]._id = id
     THEN [_id |-> id, team_name |-> doc.team_name, rating |-> coll[i].rating]
     ELSE coll[i]]

\* collection.update_one({"_id": id}, {"$set": doc})
UpdateOne(coll, id, doc) ==
  [i \in Indexes(coll) |->
     IF coll[i]._id = id
     THEN [_id |-> id, team_name |-> doc.team_name, rating |-> doc.rating]
     ELSE coll[i]]

\* create_document("teamrating", doc): insert doc as a new document
CreateDocument(coll, doc) ==
  Append(coll, [_id |-> Len(coll) + 1, team_name |-> doc.team_name,
                rating |-> doc.rating])

\* fault: a missing record read as rating 0
RatingOfZero(d) == IF d = NoDoc THEN 0 ELSE d.rating

\* float(d.get("rating", 1500.0)) if d else 1500.0
RatingOf(d) == IF d = NoDoc THEN DEFAULT_RATING ELSE d.rating

Finished(r, q, out) ==
  /\ pc' = [pc EXCEPT ![r] = "done"]
  /\ req' = [req EXCEPT ![r] = q]
  /\ resp' = [resp EXCEPT ![r] = out]

StoreUnavailable == [code |-> 500]

\* --------------------------------------------------------------- handlers
\* upsert_team_rating, lines 71-74: the check of db and the find_one
UpsertFind(r, q) ==
  /\ pc[r] = "idle"
  /\ IF ~db
     THEN /\ Finished(r, q, StoreUnavailable)
          /\ UNCHANGED <<db, teamrating, existing, hdoc, latest>>
     ELSE /\ \E d \in FindOne(teamrating, q.team_name) :
               existing' = [existing EXCEPT ![r] = d]
          /\ pc' = [pc EXCEPT ![r] = "upsert_write"]
          /\ req' = [req EXCEPT ![r] = q]
          /\ UNCHANGED <<db, teamrating, hdoc, resp, latest>>

\* fault: the write inserts whether or not find_one found a record
UpsertWriteInsert(r) ==
  /\ pc[r] = "upsert_write"
  /\ Len(teamrating) < MaxDocs
  /\ teamrating' = CreateDocument(teamrating, req[r])
  /\ resp' = [resp EXCEPT ![r] = [code |-> 200, kind |-> "upsert",
                                  status |-> "created"]]
  /\ pc' = [pc EXCEPT ![r] = "done"]
  /\ existing' = [existing EXCEPT ![r] = NoDoc]
  /\ latest' = [latest EXCEPT ![req[r].team_name] = req[r].rating]
  /\ UNCHANGED <<db, req, hdoc>>

\* fault: the write matches by team_name again instead of using what
\* find_one returned
UpsertWriteByName(r) ==
  /\ pc[r] = "upsert_write"
  /\ \E d \in FindOne(teamrating, req[r].team_name) :
       IF d # NoDoc
       THEN /\ teamrating' = UpdateOne(teamrating, d._id, req[r])
            /\ resp' = [resp EXCEPT ![r] = [code |-> 200, kind |-> "upsert",
                                            status |-> "updated"]]
       ELSE /\ Len(teamrating) < MaxDocs
            /\ teamrating' = CreateDocument(teamrating, req[r])
            /\ resp' = [resp EXCEPT ![r] = [code |-> 200, kind |-> "upsert",
                                            status |-> "created"]]
  /\ pc' = [pc EXCEPT ![r] = "done"]
  /\ existing' = [existing EXCEPT ![r] = NoDoc]
  /\ latest' = [latest EXCEPT ![req[r].team_name] = req[r].rating]
  /\ UNCHANGED <<db, req, hdoc>>

\* upsert_team_rating, lines 75-80: update_one on the found _id, or the insert
UpsertWrite(r) ==
  /\ pc[r] = "upsert_write"
  /\ IF existing[r] # NoDoc
     THEN /\ teamrating' = UpdateOne(teamrating, existing[r]._id, req[r])
          /\ resp' = [resp EXCEPT ![r] = [code |-> 200, kind |-> "upsert",
                                          status |-> "updated"]]
     ELSE /\ Len(teamrating) < MaxDocs
          /\ teamrating' = CreateDocument(teamrating, req[r])
          /\ resp' = [resp EXCEPT ![r] = [code |-> 200, kind |-> "upsert",
                                          status |-> "created"]]
  /\ pc' = [pc EXCEPT ![r] = "done"]
  /\ existing' = [existing EXCEPT ![r] = NoDoc]
  /\ latest' = [latest EXCEPT ![req[r].team_name] = req[r].rating]
  /\ UNCHANGED <<db, req, hdoc>>

\* fault: get_team_rating without the check of db
GetTeamRatingUnchecked(r, q) ==
  /\ pc[r] = "idle"
  /\ \E d \in FindOne(teamrating, q.team_name) :
       Finished(r, q,
         [code |-> 200, kind |-> "get",
          team_name |-> IF d = NoDoc THEN q.team_name ELSE d.team_name,
          rating |-> RatingOf(d)])
  /\ UNCHANGED <<db, teamrating, existing, hdoc, latest>>

\* get_team_rating, lines 84-89
GetTeamRating(r, q) ==
  /\ pc[r] = "idle"
  /\ IF ~db
     THEN Finished(r, q, StoreUnavailable)
     ELSE \E d \in FindOne(teamrating, q.team_name) :
            Finished(r, q,
              [code |-> 200, kind |-> "get",
               team_name |-> IF d = NoDoc THEN q.team_name ELSE d.team_name,
               rating |-> RatingOf(d)])
  /\ UNCHANGED <<db, teamrating, existing, hdoc, latest>>

\* predict, lines 99-140 when db is None: both ratings default
PredictNoStore(r, q) ==
  /\ pc[r] = "idle"
  /\ ~db
  /\ Finished(r, q, Prediction(DEFAULT_RATING, DEFAULT_RATING, q))
  /\ UNCHANGED <<db, teamrating, existing, hdoc, latest>>

\* predict, lines 94-95: the find_one for the home team
PredictFindHome(r, q) ==
  /\ pc[r] = "idle"
  /\ db
  /\ \E d \in FindOne(teamrating, q.home_team) : hdoc' = [hdoc EXCEPT ![r] = d]
  /\ pc' = [pc EXCEPT ![r] = "predict_away"]
  /\ req' = [req EXCEPT ![r] = q]
  /\ UNCHANGED <<db, teamrating, existing, resp, latest>>

\* predict, lines 96-140: the find_one for the away team and the computation
PredictFinish(r) ==
  /\ pc[r] = "predict_away"
  /\ \E d \in FindOne(teamrating, req[r].away_team) :
       resp' = [resp EXCEPT ![r] = Prediction(RatingOf(hdoc[r]), RatingOf(d), req[r])]
  /\ pc' = [pc EXCEPT ![r] = "done"]
  /\ hdoc' = [hdoc EXCEPT ![r] = NoDoc]
  /\ UNCHANGED <<db, teamrating, req, existing, latest>>

\* the response is sent and the slot takes the next request
Respond(r) ==
  /\ pc[r] = "done"
  /\ pc' = [pc EXCEPT ![r] = "idle"]
  /\ req' = [req EXCEPT ![r] = NoReq]
  /\ resp' = [resp EXCEPT ![r] = NoResp]
  /\ UNCHANGED <<db, teamrating, existing, hdoc, latest>>

\* ---------------------------------------------------------- specifications
InitSlots ==
  /\ pc = [r \in Requests |-> "idle"]
  /\ req = [r \in Requests |-> NoReq]
  /\ existing = [r \in Requests |-> NoDoc]
  /\ hdoc = [r \in Requests |-> NoDoc]
  /\ resp = [r \in Requests |-> NoResp]

\* after start-up: the handle configured or not, the collection empty
Init ==
  /\ db \in BOOLEAN
  /\ teamrating = <<>>
  /\ latest = [t \in Teams |-> DEFAULT_RATING]
  /\ InitSlots

\* the rating accessor, its requests served concurrently
Next ==
  \E r \in Requests :
    \/ \E q \in UpsertRequests : UpsertFind(r, q)
    \/ UpsertWrite(r)
    \/ \E q \in GetRequests : GetTeamRating(r, q)
    \/ Respond(r)

Spec == Init /\ [][Next]_vars

\* every handler, one request at a time: a request starts when no other slot
\* is busy
Quiet(r) == \A o \in Requests \ {r} : pc[o] = "idle"

NextSeq ==
  \E r \in Requests :
    /\ Quiet(r)
    /\ \/ \E q \in UpsertRequests : UpsertFind(r, q)
       \/ UpsertWrite(r)
       \/ \E q \in GetRequests : GetTeamRating(r, q)
       \/ \E q \in KickoffRequests : PredictNoStore(r, q)
       \/ \E q \in KickoffRequests : PredictFindHome(r, q)
       \/ PredictFinish(r)
       \/ Respond(r)

SpecSeq == Init /\ [][NextSeq]_vars

\* the collections sequential upserts leave: at most one document per team
RECURSIVE StoresOver(_)
StoresOver(ts) ==
  IF ts = {} THEN {<<>>}
  ELSE LET t == CHOOSE x \in ts : TRUE
       IN  StoresOver(ts \ {t}) \cup
           {Append(s, [_id |-> Len(s) + 1, team_name |-> t, rating |-> x]) :
              s \in StoresOver(ts \ {t}), x \in Ratings}

LatestOf(coll) ==
  [t \in Teams |->
     IF \E i \in Indexes(coll) : coll[i].team_name = t
     THEN (CHOOSE d \in FindOne(coll, t) : TRUE).rating
     ELSE DEFAULT_RATING]

\* the predictor on its own: any ratings stored, predict requests one at a time
InitPredict ==
  /\ db \in BOOLEAN
  /\ teamrating \in StoresOver(Teams)
  /\ latest = LatestOf(teamrating)
  /\ InitSlots

NextPredict ==
  \E r \in Requests :
    /\ Quiet(r)
    /\ \/ \E q \in MatchRequests : PredictNoStore(r, q)
       \/ \E q \in MatchRequests : PredictFindHome(r, q)
       \/ PredictFinish(r)
       \/ Respond(r)

SpecPredict == InitPredict /\ [][NextPredict]_vars

\* ---------------------------------------------------------------- helpers
Count(coll, t) == Cardinality({i \in Indexes(coll) : coll[i].team_name = t})

Names(coll) == {coll[i].team_name : i \in Indexes(coll)}

\* slot r takes a request of kind k in this step
Starts(r, k) == pc[r] = "idle" /\ pc'[r] # "idle" /\ req'[r].kind = k

\* slot r finishes a request of kind k in this step
Finishes(r, k) == pc[r] # "done" /\ pc'[r] = "done" /\ req'[r].kind = k

\* slot r holds the response of a finished request of kind k
Done(r, k) == pc[r] = "done" /\ req[r].kind = k

\* the rating predict reads for team t while the collection holds at most one
\* document per team
StoredRating(t) ==
  IF db THEN RatingOf(CHOOSE d \in FindOne(teamrating, t) : TRUE)
  ELSE DEFAULT_RATING

\* ------------------------------------------------------------------ claims
\* C1: with the store configured, a get for a team_name without a record
\* answers 200 with the requested team_name and rating 1500, whatever has been
\* upserted for other teams.
C1_UnknownTeamDefault ==
  [][\A r \in Requests :
       (Finishes(r, "get") /\ db /\ req'[r].team_name \notin Names(teamrating))
         => resp'[r] = [code |-> 200, kind |-> "get",
                        team_name |-> req'[r].team_name,
                        rating |-> DEFAULT_RATING]]_vars

C1_Witness ==
  \E r \in Requests :
    /\ Done(r, "get") /\ resp[r].code = 200
    /\ resp[r].rating = DEFAULT_RATING
    /\ req[r].team_name \notin Names(teamrating)
    /\ Names(teamrating) # {}

\* C2: served one at a time, an upsert for a team without a record answers
\* "created", an upsert for a team with a record answers "updated", and after
\* either the team has exactly one record.
C2_CreatedThenUpdated ==
  [][\A r \in Requests :
       Finishes(r, "upsert") /\ db =>
         LET t == req[r].team_name
         IN  /\ resp'[r].code = 200
             /\ Count(teamrating, t) = 0 => resp'[r].status = "created"
             /\ Count(teamrating, t) > 0 => resp'[r].status = "updated"
             /\ Count(teamrating', t) = 1]_vars

C2_Witness ==
  \E r \in Requests :
    /\ Done(r, "upsert") /\ resp[r].code = 200
    /\ resp[r].status = "updated"
    /\ Count(teamrating, req[r].team_name) = 1
    /\ latest[req[r].team_name] = req[r].rating

\* C3: with the store not configured, an upsert or a get answers 500 at once,
\* with no status or rating, without reading or writing the collection; 500 is
\* not the computation error 400.
C3_StoreUnavailable ==
  [][\A r \in Requests :
       (~db /\ (Starts(r, "upsert") \/ Starts(r, "get")))
         => /\ pc'[r] = "done"
            /\ resp'[r].code = 500
            /\ resp'[r].code # 400
            /\ DOMAIN resp'[r] = {"code"}
            /\ existing'[r] = NoDoc
            /\ teamrating' = teamrating]_vars

C3_Witness ==
  /\ ~db
  /\ \E r, o \in Requests :
       /\ Done(r, "upsert") /\ resp[r].code = 500
       /\ Done(o, "get") /\ resp[o].code = 500

\* C4: an upsert writes what its own find_one told it, whatever has been
\* written since: having found nothing it inserts a further record and answers
\* "created" even when the team has a record by now; having found a record it
\* answers "updated" and puts its own rating on that record.
C4_UpsertRace ==
  [][\A r \in Requests :
       Finishes(r, "upsert") /\ db =>
         LET t == req[r].team_name
         IN  IF existing[r] = NoDoc
             THEN /\ resp'[r].status = "created"
                  /\ Count(teamrating', t) = Count(teamrating, t) + 1
             ELSE /\ resp'[r].status = "updated"
                  /\ Len(teamrating') = Len(teamrating)
                  /\ \E i \in Indexes(teamrating') :
                       /\ teamrating'[i]._id = existing[r]._id
                       /\ teamrating'[i].rating = req[r].rating]_vars

\* both requests found nothing, both answered "created", the team has two records
C4_Witness ==
  \E r, o \in Requests :
    /\ r # o
    /\ Done(r, "upsert") /\ Done(o, "upsert")
    /\ req[r].team_name = req[o].team_name
    /\ resp[r].code = 200 /\ resp[o].code = 200
    /\ resp[r].status = "created" /\ resp[o].status = "created"
    /\ Count(teamrating, req[r].team_name) = 2

\* both requests found the record, both answered "updated", one rating is lost
C4_OverwriteReached ==
  \E r, o \in Requests :
    /\ r # o
    /\ Done(r, "upsert") /\ Done(o, "upsert")
    /\ req[r].team_name = req[o].team_name
    /\ req[r].rating # req[o].rating
    /\ resp[r].code = 200 /\ resp[o].code = 200
    /\ resp[r].status = "updated" /\ resp[o].status = "updated"
    /\ Count(teamrating, req[r].team_name) = 1

\* the prediction for request q with the scores replaced, from the ratings stored
Rescored(q, hs, as) ==
  Prediction(StoredRating(q.home_team), StoredRating(q.away_team),
             [q EXCEPT !.home_score = hs, !.away_score = as])

\* the prediction for request q with the two teams' ratings and scores swapped
Swapped(q) ==
  Prediction(StoredRating(q.away_team), StoredRating(q.home_team),
             [q EXCEPT !.home_score = q.away_score, !.away_score = q.home_score])

C6_DrawCap ==
  \A r \in Requests :
    (Done(r, "predict") /\ resp[r].code = 200) => resp[r].p_draw <= 5500

\* a level match late in the game: p_draw at its largest
C6_Witness ==
  \E r \in Requests :
    /\ Done(r, "predict") /\ resp[r].code = 200
    /\ resp[r].effective_diff = 0
    /\ req[r].minute = 130
    /\ resp[r].p_draw > 2900

\* C7 as stated: a larger goal difference gives a strictly larger p_home and a
\* strictly smaller p_away, all else equal.
C7_StrictlyMonotone ==
  \A r \in Requests :
    (Done(r, "predict") /\ resp[r].code = 200) =>
      \A hs \in Goals, as \in Goals :
        (hs - as < req[r].home_score - req[r].away_score) =>
          /\ Rescored(req[r], hs, as).p_home < resp[r].p_home
          /\ Rescored(req[r], hs, as).p_away > resp[r].p_away

\* C7 as amended: a larger goal difference never gives a smaller p_home nor a
\* larger p_away, all else equal; the returned 4-decimal values may be equal.
C7_Monotone ==
  \A r \in Requests :
    (Done(r, "predict") /\ resp[r].code = 200) =>
      \A hs \in Goals, as \in Goals :
        (hs - as < req[r].home_score - req[r].away_score) =>
          /\ Rescored(req[r], hs, as).p_home <= resp[r].p_home
          /\ Rescored(req[r], hs, as).p_away >= resp[r].p_away

\* a goal that moves both returned probabilities
C7_Witness ==
  \E r \in Requests :
    /\ Done(r, "predict") /\ resp[r].code = 200
    /\ req[r].home_score = 1 /\ req[r].away_score = 0
    /\ Rescored(req[r], 0, 0).p_home < resp[r].p_home
    /\ Rescored(req[r], 0, 0).p_away > resp[r].p_away

\* the request of the example: no goals, minute 0, not neutral, neither team rated
Example(r) ==
  /\ Done(r, "predict") /\ resp[r].code = 200
  /\ req[r].home_score = 0 /\ req[r].away_score = 0
  /\ req[r].minute = 0 /\ ~req[r].is_neutral
  /\ StoredRating(req[r].home_team) = DEFAULT_RATING
  /\ StoredRating(req[r].away_team) = DEFAULT_RATING
  /\ (db => Names(teamrating) = {})

C9_NeutralSymmetry ==
  \A r \in Requests :
    (Done(r, "predict") /\ resp[r].code = 200 /\ req[r].is_neutral) =>
      LET o == Swapped(req[r])
      IN  /\ Abs(o.p_home - resp[r].p_away) <= 1
          /\ Abs(o.p_away - resp[r].p_home) <= 1
          /\ o.p_draw = resp[r].p_draw
          /\ o.effective_diff = -resp[r].effective_diff

\* a neutral match with different ratings and different scores
C9_Witness ==
  \E r \in Requests :
    /\ Done(r, "predict") /\ resp[r].code = 200 /\ req[r].is_neutral
    /\ StoredRating(req[r].home_team) # StoredRating(req[r].away_team)
    /\ req[r].home_score # req[r].away_score
    /\ resp[r].p_home # resp[r].p_away
    /\ resp[r].effective_diff # 0

\* C10: served one at a time on a configured store, a get answers the rating
\* of the last upsert of its team (1500 if none); an upsert leaves the other
\* teams' records as they are; a get or a predict leaves the collection as it
\* is; no step removes a record or a team name.
C10_ReadAfterWrite ==
  [][\A r \in Requests :
       /\ (Finishes(r, "get") /\ db) =>
            resp'[r] = [code |-> 200, kind |-> "get",
                        team_name |-> req'[r].team_name,
                        rating |-> latest[req'[r].team_name]]
       /\ (Finishes(r, "upsert") /\ db) =>
            /\ \A i \in Indexes(teamrating) :
                 teamrating[i].team_name # req[r].team_name
                   => teamrating'[i] = teamrating[i]
            /\ \E d \in FindOne(teamrating', req[r].team_name) :
                 d.rating = req[r].rating
       /\ (pc'[r] # pc[r] /\ req'[r].kind \in {"get", "predict"}) =>
            teamrating' = teamrating
       /\ Len(teamrating') >= Len(teamrating)
       /\ \A i \in Indexes(teamrating) :
            /\ teamrating'[i]._id = teamrating[i]._id
            /\ teamrating'[i].team_name = teamrating[i].team_name
       /\ Names(teamrating) \subseteq Names(teamrating')]_vars

\* a get that answers an upserted rating while the other team has a record too
C10_Witness ==
  \E r \in Requests :
    /\ Done(r, "get") /\ resp[r].code = 200
    /\ resp[r].rating = latest[req[r].team_name]
    /\ resp[r].rating # DEFAULT_RATING
    /\ Names(teamrating) = Teams

=============================================================================
